---- MODULE Spec2Model ----
(***************************************************************************)
(* Model of app.py: the Streamlit dashboard over the SQLite table "logs".  *)
(* One render pass is the module-level script: ensure_db_and_table(),      *)
(* load_all(), the empty check, the Ping status filter and the metrics.    *)
(* Tables (pandas DataFrames, the SQLite table, the CSV file) are records  *)
(* [cols, rows]: a sequence of column names and a sequence of rows, each   *)
(* row a sequence of cells aligned with cols.                              *)
(***************************************************************************)
EXTENDS Integers, Sequences, FiniteSets, TLC

\* ---- bounds -------------------------------------------------------------
MaxRows == 3        \* rows in log.csv / in a logs table that exists at start
MaxPasses == 2      \* render passes (script reruns) explored

\* ---- cells --------------------------------------------------------------
\* A cell is a record [k, n, f, s]:
\*   k = "null"  a missing value; s tells its spelling (None, nan, NaT, NULL)
\*   k = "num"   the number n
\*   k = "text"  the text s (neither a number nor a date-time)
\*   k = "tstext" a date-time written as text: second n, sub-second part f,
\*               s = "S.f" when the text carries the fraction, "S" when it is
\*               written as %Y-%m-%d %H:%M:%S
\*   k = "dt"    a datetime64 value: second n, sub-second part f
NoneV == [k |-> "null", n |-> 0, f |-> 0, s |-> "None"]
NaN == [k |-> "null", n |-> 0, f |-> 0, s |-> "nan"]
NaT == [k |-> "null", n |-> 0, f |-> 0, s |-> "NaT"]
SqlNull == [k |-> "null", n |-> 0, f |-> 0, s |-> "NULL"]
Num(x) == [k |-> "num", n |-> x, f |-> 0, s |-> ""]
Txt(t) == [k |-> "text", n |-> 0, f |-> 0, s |-> t]
TsText(t, fr, fmt) == [k |-> "tstext", n |-> t, f |-> fr, s |-> fmt]
Dt(t, fr) == [k |-> "dt", n |-> t, f |-> fr]
IsNull(c) == c.k = "null"

\* ---- program constants --------------------------------------------------
TABLE == "logs"
wanted == <<"Timestamp", "CPU", "Memory", "Disk", "Ping_Status", "Ping_ms">>
NumericCols == {"CPU", "Memory", "Disk", "Ping_ms"}
\* the first selectbox option (line 117), the one that keeps every row
ALL == "ALL_ROWS"
FilterOptions == {ALL, "UP", "DOWN"}

\* str.lower() on the column names that occur
Lower(name) ==
  CASE name \in {"Timestamp", "timestamp", "TIMESTAMP"} -> "timestamp"
    [] name \in {"CPU", "cpu", "Cpu"} -> "cpu"
    [] name \in {"Memory", "memory"} -> "memory"
    [] name \in {"Disk", "DISK", "disk"} -> "disk"
    [] name \in {"Ping_Status", "PING_STATUS", "ping_status"} -> "ping_status"
    [] name \in {"Ping_ms", "ping_ms"} -> "ping_ms"
    [] name \in {"Extra", "extra"} -> "extra"
    [] name \in {"UP", "up"} -> "up"
    [] name \in {"DOWN", "down"} -> "down"
    [] OTHER -> name

\* ---- pandas coercions (errors="coerce") ---------------------------------
\* pd.to_datetime: date-time text parses, numbers are nanoseconds since the
\* epoch, anything else becomes NaT
to_datetime(c) ==
  CASE c.k = "tstext" -> Dt(c.n, c.f)
    [] c.k = "dt" -> c
    [] c.k = "num" -> Dt(0, c.n)
    [] OTHER -> NaT

\* pd.to_numeric: numbers stay, anything else becomes NaN
to_numeric(c) ==
  CASE c.k = "num" -> c
    [] OTHER -> NaN

\* Series.astype(str): the textual spelling of the cell, nulls included
astype_str(c) ==
  CASE c.k = "null" -> Txt(c.s)
    [] c.k = "text" -> c
    [] OTHER -> [k |-> "text", n |-> c.n, f |-> c.f, s |-> c.k]

\* Series.dt.strftime("%Y-%m-%d %H:%M:%S"): the fraction is not written
strftime_date_only(c) ==
  CASE c.k = "dt" -> TsText(0, 0, "D")
    [] OTHER -> NaN

strftime(c) ==
  CASE c.k = "dt" -> TsText(c.n, 0, "S")
    [] OTHER -> NaN

\* DataFrame.to_sql / pd.read_sql_query cell conversions
SqlWrite(c) == IF IsNull(c) THEN SqlNull ELSE c
SqlRead(c) == IF IsNull(c) THEN NoneV ELSE c

\* ---- DataFrame helpers --------------------------------------------------
Table(cols, rows) == [cols |-> cols, rows |-> rows]
Column(df, w) == CHOOSE i \in 1..Len(df.cols) : df.cols[i] = w
Cell(df, r, w) == df.rows[r][Column(df, w)]
\* DataFrame.empty: no rows or no columns
EmptyNever(df) == FALSE

Empty(df) == Len(df.rows) = 0 \/ Len(df.cols) = 0

\* lower_map = {c.lower(): c for c in df.columns}: a later column replaces an
\* earlier one under the same lower-cased key. 0 stands for "key not in map".
lower_map_first(cols, key) ==
  LET hits == {i \in 1..Len(cols) : Lower(cols[i]) = key}
  IN IF hits = {} THEN 0 ELSE CHOOSE i \in hits : \A j \in hits : i <= j

lower_map(cols, key) ==
  LET hits == {i \in 1..Len(cols) : Lower(cols[i]) = key}
  IN IF hits = {} THEN 0 ELSE CHOOSE i \in hits : \A j \in hits : j <= i

\* the input column that feeds canonical column w; 0 when the column is filled
\* with None
SourceColumn_positional(cols, w) ==
  LET pos == CHOOSE j \in 1..Len(wanted) : wanted[j] = w
  IN IF lower_map(cols, Lower(w)) # 0 THEN lower_map(cols, Lower(w))
     ELSE IF pos <= Len(cols) THEN pos ELSE 0

SourceColumn(cols, w) ==
  IF lower_map(cols, Lower(w)) # 0 THEN lower_map(cols, Lower(w))
  ELSE IF \E i \in 1..Len(cols) : cols[i] = w
       THEN CHOOSE i \in 1..Len(cols) : cols[i] = w
       ELSE 0

\* the per-column conversions of lines 41-49
Coerce(w, c) ==
  IF w = "Timestamp" THEN to_datetime(c)
  ELSE IF w \in NumericCols THEN to_numeric(c)
  ELSE astype_str(c)

normalize_columns(df) ==
  Table(wanted,
        [r \in 1..Len(df.rows) |->
           [j \in 1..Len(wanted) |->
              LET src == SourceColumn(df.cols, wanted[j])
              IN Coerce(wanted[j], IF src = 0 THEN NoneV ELSE df.rows[r][src])]])

\* csv_df["Timestamp"] = csv_df["Timestamp"].dt.strftime(...)
StrftimeTimestamp(df) ==
  Table(df.cols,
        [r \in 1..Len(df.rows) |->
           [j \in 1..Len(df.cols) |->
              IF df.cols[j] = "Timestamp" THEN strftime(df.rows[r][j])
              ELSE df.rows[r][j]]])

\* csv_df.to_sql(TABLE, conn, index=False, if_exists="replace")
to_sql(df) ==
  [exists |-> TRUE, cols |-> df.cols,
   rows |-> [r \in 1..Len(df.rows) |->
               [j \in 1..Len(df.cols) |-> SqlWrite(df.rows[r][j])]]]

\* pd.read_sql_query("SELECT * FROM logs", conn)
read_sql_query(st) ==
  Table(st.cols,
        [r \in 1..Len(st.rows) |->
           [j \in 1..Len(st.cols) |-> SqlRead(st.rows[r][j])]])

\* CREATE TABLE IF NOT EXISTS logs (...six columns...)
CreateNothing == [exists |-> FALSE, cols |-> <<>>, rows |-> <<>>]

CreateEmptyTable == [exists |-> TRUE, cols |-> wanted, rows |-> <<>>]

\* SELECT name FROM sqlite_master WHERE type='table' AND name='logs'
TableExistsNever(st) == FALSE

TableExists(st) == st.exists

\* ---- sort_values("Timestamp") -------------------------------------------
\* ascending, nulls last (na_position="last"); the default quicksort gives no
\* promise on the order of equal keys, so every sorted arrangement is possible
TsLeq(a, b) ==
  IF IsNull(b) THEN TRUE
  ELSE IF IsNull(a) THEN FALSE
  ELSE a.n < b.n \/ (a.n = b.n /\ a.f <= b.f)

Arrangements(df) ==
  {Table(df.cols, [i \in 1..Len(df.rows) |-> df.rows[p[i]]]) :
     p \in Permutations(1..Len(df.rows))}

sort_values_unsorted(df) == {df}

sort_values(df) ==
  {t \in Arrangements(df) :
     \A i \in 1..(Len(t.rows) - 1) :
       TsLeq(Cell(t, i, "Timestamp"), Cell(t, i + 1, "Timestamp"))}

\* ---- status filter: df[df["Ping_Status"] == selected] ---------------------
StatusEqualsAnyCase(c, sel) == c.k = "text" /\ Lower(c.s) = Lower(sel)

StatusEquals(c, sel) == c.k = "text" /\ c.s = sel

RECURSIVE KeepRows(_, _, _)
KeepRows(df, sel, i) ==
  IF i > Len(df.rows) THEN <<>>
  ELSE (IF StatusEquals(Cell(df, i, "Ping_Status"), sel)
        THEN <<df.rows[i]>> ELSE <<>>) \o KeepRows(df, sel, i + 1)

ApplyFilter(df, sel) ==
  IF sel = ALL THEN df ELSE Table(df.cols, KeepRows(df, sel, 1))

\* ---- inputs: the files and tables a run can start from --------------------
\* One monitoring sample as a logger writes it: a time cell, a measurement
\* and a ping status. Times carry a fraction, two samples share a second,
\* one time and one measurement are not parseable, one sample is blank.
Samples ==
  { [ts |-> TsText(2, 0, "S.f"), val |-> Num(10), st |-> Txt("UP")],
    [ts |-> TsText(1, 5, "S.f"), val |-> Num(20), st |-> Txt("DOWN")],
    [ts |-> TsText(1, 0, "S.f"), val |-> Num(30), st |-> Txt("up")],
    [ts |-> Txt("yesterday"), val |-> Num(40), st |-> Txt("DOWN")],
    [ts |-> TsText(3, 0, "S.f"), val |-> Txt("n/a"), st |-> Txt("UP")],
    [ts |-> NaN, val |-> NaN, st |-> NaN] }

\* the header rows of log.csv that are explored
CsvHeaders ==
  { wanted,
    <<"time", "cpu_pct", "mem_pct">>,
    <<"Timestamp", "CPU", "cpu", "Ping_Status">>,
    <<"ping_status", "DISK", "Extra", "timestamp", "cpu", "CPU">>,
    <<"Ping_ms", "memory", "TIMESTAMP">> }

\* the cell a sample puts under a column: the time under a time column, the
\* status under a status column, the measurement (told apart per column by
\* the column's position) anywhere else
SampleCell(smp, name, pos) ==
  IF Lower(name) \in {"timestamp", "time"} THEN smp.ts
  ELSE IF Lower(name) = "ping_status" THEN smp.st
  ELSE IF smp.val.k = "num" THEN Num(smp.val.n + pos)
  ELSE smp.val

SampleRow(smp, cols) == [j \in 1..Len(cols) |-> SampleCell(smp, cols[j], j)]

RowSeqs(cols) ==
  UNION {[1..n -> {SampleRow(smp, cols) : smp \in Samples}] : n \in 0..MaxRows}

\* log.csv as pd.read_csv delivers it; ok = FALSE is a file read_csv rejects
NoCsv == [present |-> FALSE, ok |-> FALSE, cols |-> <<>>, rows |-> <<>>]
BadCsv == [present |-> TRUE, ok |-> FALSE, cols |-> <<>>, rows |-> <<>>]
CsvFiles ==
  UNION {{[present |-> TRUE, ok |-> TRUE, cols |-> h, rows |-> rs] :
            rs \in RowSeqs(h)} : h \in CsvHeaders}
read_csv(file) == Table(file.cols, file.rows)

\* a logs table that exists before the first pass (written by the logger or
\* by an earlier run), and the absent table
NoTable == [exists |-> FALSE, cols |-> <<>>, rows |-> <<>>]
ExistingTables == {to_sql(Table(wanted, rs)) : rs \in RowSeqs(wanted)}
\* a file lying next to a table that already exists
SideCsv ==
  [present |-> TRUE, ok |-> TRUE, cols |-> wanted,
   rows |-> <<SampleRow([ts |-> TsText(4, 0, "S.f"), val |-> Num(50),
                         st |-> Txt("UP")], wanted)>>]

\* ---- state ----------------------------------------------------------------
VARIABLES
  store,        \* log.db: the table logs
  csv,          \* log.csv
  pc,           \* position of the script in the current pass
  pass,         \* number of the current pass
  msgs,         \* statuses shown in this pass (st.info / st.warning / ...)
  trace,        \* calls made in this pass
  err,          \* the exception that ended this pass, "none" otherwise
  csv_df,       \* ensure_db_and_table's csv_df as written to the table
  df_all,       \* result of load_all()
  selected,     \* the selectbox value
  df,           \* the filtered table
  latest_row,   \* df.iloc[-1], <<>> when not evaluated
  first_store   \* the table as the first return of ensure_db_and_table left it

vars == <<store, csv, pc, pass, msgs, trace, err, csv_df, df_all, selected,
          df, latest_row, first_store>>

NoFrame == Table(<<>>, <<>>)

Init ==
  /\ \/ store = NoTable /\ csv \in CsvFiles \cup {NoCsv, BadCsv}
     \/ store \in ExistingTables /\ csv \in {NoCsv, BadCsv, SideCsv}
  /\ pc = "start"
  /\ pass = 1
  /\ msgs = {}
  /\ trace = {}
  /\ err = "none"
  /\ csv_df = NoFrame
  /\ df_all = NoFrame
  /\ selected = ALL
  /\ df = NoFrame
  /\ latest_row = <<>>
  /\ first_store = NoTable

\* ---- ensure_db_and_table() ------------------------------------------------
Returned(st) ==
  /\ pc' = "ensured"
  /\ first_store' = IF pass = 1 THEN st ELSE first_store

\* the table exists: nothing but conn.close()
EnsureExists ==
  /\ pc = "start"
  /\ TableExists(store)
  /\ Returned(store)
  /\ UNCHANGED <<store, csv, pass, msgs, trace, err, csv_df, df_all, selected,
                 df, latest_row>>

\* no table, log.csv present and readable: import it
EnsureImport ==
  /\ pc = "start"
  /\ ~TableExists(store)
  /\ csv.present /\ csv.ok
  /\ csv_df' = StrftimeTimestamp(normalize_columns(read_csv(csv)))
  /\ store' = to_sql(csv_df')
  /\ msgs' = msgs \cup {"info_imported"}
  /\ trace' = trace \cup {"read_csv", "normalize_csv"}
  /\ Returned(store')
  /\ UNCHANGED <<csv, pass, err, df_all, selected, df, latest_row>>

\* no table, log.csv present but pd.read_csv raises: the exception leaves
\* the script
EnsureImportRaises ==
  /\ pc = "start"
  /\ ~TableExists(store)
  /\ csv.present /\ ~csv.ok
  /\ trace' = trace \cup {"read_csv"}
  /\ err' = "csv_parse"
  /\ pc' = "crashed"
  /\ UNCHANGED <<store, csv, pass, msgs, csv_df, df_all, selected, df,
                 latest_row, first_store>>

\* no table, no log.csv: create the empty table
EnsureCreateEmpty ==
  /\ pc = "start"
  /\ ~TableExists(store)
  /\ ~csv.present
  /\ store' = CreateEmptyTable
  /\ msgs' = msgs \cup {"warning_empty_table"}
  /\ Returned(store')
  /\ UNCHANGED <<csv, pass, trace, err, csv_df, df_all, selected, df,
                 latest_row>>

\* ---- load_all() -----------------------------------------------------------
\* what pd.read_sql_query raises: the table is missing, or the store cannot
\* be read (ok = FALSE: locked or unreadable file)
QueryError(st, ok) ==
  IF ~ok THEN "store_unavailable"
  ELSE IF ~st.exists THEN "no_such_table"
  ELSE "none"

\* try/finally without except: the exception leaves load_all and the script
LoadAllRaises ==
  /\ pc = "ensured"
  /\ \E ok \in BOOLEAN :
       /\ QueryError(store, ok) # "none"
       /\ err' = QueryError(store, ok)
  /\ trace' = trace \cup {"select_failed"}
  /\ pc' = "crashed"
  /\ UNCHANGED <<store, csv, pass, msgs, csv_df, df_all, selected, df,
                 latest_row, first_store>>

\* if df.empty: return df
LoadAllEmpty ==
  /\ pc = "ensured"
  /\ QueryError(store, TRUE) = "none"
  /\ Empty(read_sql_query(store))
  /\ df_all' = read_sql_query(store)
  /\ pc' = "loaded"
  /\ UNCHANGED <<store, csv, pass, msgs, trace, err, csv_df, selected, df,
                 latest_row, first_store>>

\* df = _normalize_columns(df); return df.sort_values("Timestamp")
LoadAllRows ==
  /\ pc = "ensured"
  /\ QueryError(store, TRUE) = "none"
  /\ ~Empty(read_sql_query(store))
  /\ df_all' \in sort_values(normalize_columns(read_sql_query(store)))
  /\ trace' = trace \cup {"normalize_load"}
  /\ pc' = "loaded"
  /\ UNCHANGED <<store, csv, pass, msgs, err, csv_df, selected, df,
                 latest_row, first_store>>

\* ---- the rest of the script -----------------------------------------------
\* if df_all.empty: st.info(...); st.stop()
StopNoData ==
  /\ pc = "loaded"
  /\ Empty(df_all)
  /\ msgs' = msgs \cup {"info_no_data"}
  /\ pc' = "stopped"
  /\ UNCHANGED <<store, csv, pass, trace, err, csv_df, df_all, selected, df,
                 latest_row, first_store>>

\* the filter, the last five rows, the metrics of the latest row, the charts
Render ==
  /\ pc = "loaded"
  /\ ~Empty(df_all)
  /\ \E sel \in FilterOptions :
       /\ selected' = sel
       /\ df' = ApplyFilter(df_all, sel)
  /\ latest_row' = IF Len(df'.rows) > 0 THEN df'.rows[Len(df'.rows)] ELSE <<>>
  /\ trace' = trace \cup {"filter", "metrics", "charts"}
  /\ msgs' = msgs \cup {"success"}
  /\ pc' = "rendered"
  /\ UNCHANGED <<store, csv, pass, err, csv_df, df_all, first_store>>

\* a user interaction or a page reload runs the script again
Rerun ==
  /\ pc \in {"stopped", "rendered", "crashed"}
  /\ pass < MaxPasses
  /\ pass' = pass + 1
  /\ pc' = "start"
  /\ msgs' = {}
  /\ trace' = {}
  /\ err' = "none"
  /\ csv_df' = NoFrame
  /\ df_all' = NoFrame
  /\ selected' = ALL
  /\ df' = NoFrame
  /\ latest_row' = <<>>
  /\ UNCHANGED <<store, csv, first_store>>

Next ==
  \/ EnsureExists
  \/ EnsureImport
  \/ EnsureImportRaises
  \/ EnsureCreateEmpty
  \/ LoadAllRaises
  \/ LoadAllEmpty
  \/ LoadAllRows
  \/ StopNoData
  \/ Render
  \/ Rerun

Spec == Init /\ [][Next]_vars

\* ==== properties ===========================================================
Imported == "info_imported" \in msgs
NameMatches(cols, w) == {i \in 1..Len(cols) : Lower(cols[i]) = Lower(w)}
Max(S) == CHOOSE i \in S : \A j \in S : j <= i

\* C1: when the table logs exists, ensure_db_and_table changes neither the
\* table, nor log.csv, reads no file and shows no status; and in a later pass
\* the store is, once the call is over, what the first call left.
C1_EnsureIdempotent ==
  /\ [][(pc = "start" /\ store.exists /\ pc' # "start")
          => /\ pc' = "ensured"
             /\ store' = store
             /\ csv' = csv
             /\ msgs' = msgs
             /\ csv_df' = csv_df
             /\ "read_csv" \notin trace']_vars
  /\ []((pass >= 2 /\ pc # "start") => store = first_store)

\* the table existed with rows beside a readable log.csv, and a second pass
\* has run ensure_db_and_table again
C1_Witness ==
  /\ pass = 2 /\ pc = "ensured"
  /\ csv.present /\ csv.ok
  /\ Len(store.rows) > 0
  /\ store.rows # to_sql(StrftimeTimestamp(normalize_columns(read_csv(csv)))).rows

\* C2: load_all runs only after ensure_db_and_table has returned, the table
\* exists then, and no pass ends on a missing table; with neither table nor
\* log.csv the call creates the empty six-column table and shows the warning.
C2_TableExistsAtLoad ==
  /\ [](pc = "ensured" => store.exists)
  /\ [](err # "no_such_table")
  /\ [][(pc' # pc /\ (pc' = "loaded" \/ "select_failed" \in trace'))
          => (pc = "ensured" /\ store.exists)]_vars
  /\ [][(pc = "start" /\ ~store.exists /\ ~csv.present /\ pc' # "start")
          => /\ pc' = "ensured"
             /\ store'.exists
             /\ store'.cols = <<"Timestamp", "CPU", "Memory", "Disk",
                                "Ping_Status", "Ping_ms">>
             /\ store'.rows = <<>>
             /\ "warning_empty_table" \in msgs']_vars

\* the table was created empty in this pass and load_all has read it
C2_Witness ==
  pc = "loaded" /\ "warning_empty_table" \in msgs /\ store.exists

\* C3: when the SELECT of load_all fails, no exception ends the pass: the
\* pass goes on as with an empty table (the "no data" status, then stop).
C3_SentinelOnFailure ==
  "select_failed" \in trace => (err = "none" /\ pc \in {"loaded", "stopped"})

\* C4: the table _normalize_columns made of log.csv has the six canonical
\* columns in order and the file's row count, and every canonical column
\* that no file column matches is null in every row.
C4_NormalizeShape ==
  "normalize_csv" \in trace =>
     /\ csv_df.cols = wanted
     /\ Len(csv_df.rows) = Len(csv.rows)
     /\ \A w \in {wanted[j] : j \in 1..Len(wanted)} :
          NameMatches(csv.cols, w) = {} =>
             \A r \in 1..Len(csv_df.rows) : IsNull(Cell(csv_df, r, w))

\* C5 as stated: from a file with the columns time, cpu_pct, mem_pct, the
\* loaded table has Disk, Ping_Status and Ping_ms null and CPU and Memory
\* carry the file's second and third column.
C5_Original ==
  (pc = "loaded" /\ Imported /\ csv.cols = <<"time", "cpu_pct", "mem_pct">>)
    => /\ df_all.cols = wanted
       /\ Len(df_all.rows) = Len(csv.rows)
       /\ \A r \in 1..Len(df_all.rows) :
            /\ IsNull(Cell(df_all, r, "Disk"))
            /\ IsNull(Cell(df_all, r, "Ping_Status"))
            /\ IsNull(Cell(df_all, r, "Ping_ms"))
            /\ \E q \in 1..Len(csv.rows) :
                 /\ Cell(df_all, r, "CPU") = to_numeric(csv.rows[q][2])
                 /\ Cell(df_all, r, "Memory") = to_numeric(csv.rows[q][3])

\* C5, amended: from a file with the columns time, cpu_pct, mem_pct, the
\* loaded table has the six canonical columns and the file's row count;
\* Timestamp, CPU, Memory, Disk and Ping_ms are null in every row (no file
\* column matches a canonical name) and Ping_Status is the text "None".
C5_UnmatchedColumns ==
  (pc = "loaded" /\ Imported /\ csv.cols = <<"time", "cpu_pct", "mem_pct">>)
    => /\ df_all.cols = wanted
       /\ Len(df_all.rows) = Len(csv.rows)
       /\ \A r \in 1..Len(df_all.rows) :
            /\ \A w \in {"Timestamp", "CPU", "Memory", "Disk", "Ping_ms"} :
                 IsNull(Cell(df_all, r, w))
            /\ Cell(df_all, r, "Ping_Status") = Txt("None")

\* a file with these columns and numeric cpu_pct cells was imported and loaded
C5_Witness ==
  /\ pc = "loaded" /\ Imported
  /\ csv.cols = <<"time", "cpu_pct", "mem_pct">>
  /\ Len(df_all.rows) = 2
  /\ \A q \in 1..Len(csv.rows) : csv.rows[q][2].k = "num"

\* the value log.csv holds for canonical column w in file row q: the cell of
\* the matching file column when it is of the right kind, null otherwise
FileNumber(q, w) ==
  LET m == NameMatches(csv.cols, w)
  IN IF m # {} /\ csv.rows[q][Max(m)].k = "num"
     THEN Num(csv.rows[q][Max(m)].n) ELSE NaN
FileSecond(q) ==
  LET m == NameMatches(csv.cols, "Timestamp")
  IN IF m # {} /\ csv.rows[q][Max(m)].k = "tstext"
     THEN Dt(csv.rows[q][Max(m)].n, 0) ELSE NaT
SameValue(a, b) == (IsNull(a) /\ IsNull(b)) \/ (~IsNull(a) /\ a = b)

\* C6: after an import of log.csv, load_all returns as many rows as the file
\* has, and the rows are the file's rows in some order: each with the file's
\* CPU, Memory, Disk and Ping_ms (null where the file cell is no number) and
\* the file's time to the second (null where it is no time).
C6_RoundTrip ==
  (pc = "loaded" /\ Imported) =>
     /\ Len(df_all.rows) = Len(csv.rows)
     /\ \E p \in Permutations(1..Len(csv.rows)) :
          \A r \in 1..Len(df_all.rows) :
            /\ \A w \in NumericCols :
                 SameValue(Cell(df_all, r, w), FileNumber(p[r], w))
            /\ SameValue(Cell(df_all, r, "Timestamp"), FileSecond(p[r]))

\* a file of three rows, one with a time that does not parse and one with a
\* fraction of a second, was imported and comes back in another order
C6_Witness ==
  /\ pc = "loaded" /\ Imported
  /\ Len(csv.rows) = 3
  /\ csv.cols = <<"ping_status", "DISK", "Extra", "timestamp", "cpu", "CPU">>
  /\ csv.rows[1][4].k = "text"
  /\ csv.rows[2][4].k = "tstext" /\ csv.rows[2][4].f # 0
  /\ ~IsNull(Cell(df_all, 1, "Disk"))
  /\ IsNull(Cell(df_all, 3, "Timestamp"))
  /\ Cell(df_all, 3, "Disk") = Num(csv.rows[1][2].n)

\* C7: with the "all" option the filtered table is the loaded table; with UP
\* or DOWN it holds exactly the loaded rows whose Ping_Status is that text,
\* case and all, in their order; the filter leaves df_all as it is.
C7_StatusFilter ==
  /\ [](pc = "rendered" =>
          LET hit == {i \in 1..Len(df_all.rows) :
                        Cell(df_all, i, "Ping_Status") = Txt(selected)}
          IN /\ df.cols = df_all.cols
             /\ selected = ALL => df.rows = df_all.rows
             /\ selected # ALL =>
                  /\ Len(df.rows) = Cardinality(hit)
                  /\ \E g \in [1..Len(df.rows) -> hit] :
                       /\ \A i, j \in 1..Len(df.rows) : i < j => g[i] < g[j]
                       /\ \A i \in 1..Len(df.rows) :
                            df.rows[i] = df_all.rows[g[i]])
  /\ [][pc = "loaded" => df_all' = df_all]_vars

\* UP is selected on three loaded rows, one of them "up": two rows remain
C7_Witness ==
  /\ pc = "rendered" /\ selected = "UP"
  /\ Len(df_all.rows) = 3 /\ Len(df.rows) = 2
  /\ df.rows[1] # df.rows[2]
  /\ \E i \in 1..3 : Cell(df_all, i, "Ping_Status") = Txt("up")

\* C8: when the table has no rows, load_all returns the empty table without
\* a call of _normalize_columns, the pass shows the "no data" status and no
\* error, and stops: no filter, no metrics, no charts.
C8_EmptyTablePass ==
  /\ (pc \in {"loaded", "stopped", "rendered"} /\ Len(store.rows) = 0)
       => /\ "normalize_load" \notin trace
          /\ Len(df_all.rows) = 0
          /\ pc # "rendered"
  /\ pc = "stopped"
       => /\ "info_no_data" \in msgs
          /\ err = "none"
          /\ trace \cap {"filter", "metrics", "charts"} = {}
          /\ df = NoFrame
          /\ latest_row = <<>>
          /\ Len(store.rows) = 0

\* a table that existed without rows: the pass has stopped
C8_Witness ==
  /\ pc = "stopped" /\ pass = 1
  /\ first_store.exists /\ msgs = {"info_no_data"}

\* C9: for a table with rows, load_all returns all its (normalized) rows,
\* those with a time in ascending order of time; and when every filtered
\* row has a time, the latest row has the greatest one.
C9_SortedByTimestamp ==
  /\ (pc \in {"loaded", "rendered"} /\ Len(store.rows) > 0) =>
        /\ Len(df_all.rows) = Len(store.rows)
        /\ LET read == normalize_columns(read_sql_query(store)).rows
               Count(rows, x) == Cardinality({i \in 1..Len(rows) : rows[i] = x})
           IN \A i \in 1..Len(read) :
                Count(df_all.rows, read[i]) = Count(read, read[i])
        /\ \A i, j \in 1..Len(df_all.rows) :
             (/\ i < j
              /\ ~IsNull(Cell(df_all, i, "Timestamp"))
              /\ ~IsNull(Cell(df_all, j, "Timestamp")))
               => \/ Cell(df_all, i, "Timestamp").n
                       < Cell(df_all, j, "Timestamp").n
                  \/ /\ Cell(df_all, i, "Timestamp").n
                          = Cell(df_all, j, "Timestamp").n
                     /\ Cell(df_all, i, "Timestamp").f
                          <= Cell(df_all, j, "Timestamp").f
  /\ (/\ pc = "rendered" /\ Len(df.rows) > 0
      /\ \A i \in 1..Len(df.rows) : ~IsNull(Cell(df, i, "Timestamp")))
       => /\ latest_row = df.rows[Len(df.rows)]
          /\ \A i \in 1..Len(df.rows) :
               \/ Cell(df, i, "Timestamp").n < latest_row[1].n
               \/ /\ Cell(df, i, "Timestamp").n = latest_row[1].n
                  /\ Cell(df, i, "Timestamp").f <= latest_row[1].f

\* a stored table whose first row is the latest and which holds a row
\* without a time; after the filter two rows with a time remain
C9_Witness ==
  /\ pc = "rendered" /\ Len(store.rows) = 3
  /\ Len(df.rows) = 2
  /\ \A i \in 1..2 : ~IsNull(Cell(df, i, "Timestamp"))
  /\ \E i \in 1..3 : IsNull(Cell(df_all, i, "Timestamp"))
  /\ latest_row[1] = to_datetime(store.rows[1][1])
  /\ latest_row[1] # Cell(df, 1, "Timestamp")

\* the cell _normalize_columns and the strftime of line 67 make of a source
\* cell for canonical column w
Converted(w, c) ==
  IF w = "Timestamp" THEN strftime(to_datetime(c))
  ELSE IF w \in NumericCols THEN to_numeric(c)
  ELSE astype_str(c)

\* C10 as stated: a file column named exactly as the canonical field is the
\* one whose values are used, also beside a column that differs by case.
C10_Original ==
  "normalize_csv" \in trace =>
     \A j \in 1..Len(wanted) : \A i \in 1..Len(csv.cols) :
        csv.cols[i] = wanted[j] =>
           \A r \in 1..Len(csv.rows) :
              csv_df.rows[r][j] = Converted(wanted[j], csv.rows[r][i])

\* C10, amended: each canonical column is made of the last file column whose
\* name matches it without regard to case, whether or not an earlier column
\* bears the exact name; with no such column it is made of nulls, one per
\* file row (which the conversion to text turns into "None" for Ping_Status).
C10_LastMatchWins ==
  "normalize_csv" \in trace =>
     /\ Len(csv_df.rows) = Len(csv.rows)
     /\ \A j \in 1..Len(wanted) : \A r \in 1..Len(csv.rows) :
          LET m == NameMatches(csv.cols, wanted[j])
          IN csv_df.rows[r][j] =
               Converted(wanted[j],
                         IF m = {} THEN NoneV ELSE csv.rows[r][Max(m)])

\* a file with the columns CPU and, after it, cpu: the values of cpu are used
C10_Witness ==
  /\ "normalize_csv" \in trace
  /\ csv.cols = <<"Timestamp", "CPU", "cpu", "Ping_Status">>
  /\ Len(csv.rows) = 2
  /\ \A r \in 1..2 : /\ csv.rows[r][2].k = "num"
                     /\ Cell(csv_df, r, "CPU") = csv.rows[r][3]
                     /\ Cell(csv_df, r, "CPU") # csv.rows[r][2]

====
